---- MODULE Spec2Model ----
(***************************************************************************)
(* AppBuilder (insights_messaging/builder.py): the assembly of a pipeline  *)
(* (publisher, downloader, engine, consumer, watchers) from a manifest.    *)
(* build_app() is modelled statement by statement; the calls it makes into *)
(* insights.dr, into the component constructors and into the watchers are  *)
(* recorded in a call log.                                                 *)
(***************************************************************************)
EXTENDS Integers, Sequences, FiniteSets, TLC

(* ------------------------------ bounds -------------------------------- *)

\* longest plugins.packages list that is enumerated
MaxPackages == 2
\* longest service.target_components list that is enumerated
MaxTargets == 2
\* longest service.watchers list that is enumerated
MaxWatchers == 2
\* longest args list of a ComponentSpec that is enumerated
MaxArgs == 2

(* --------------------------- Python values ---------------------------- *)

\* Python's None, and a value that is not None
None == [none |-> TRUE]
Some(v) == [none |-> FALSE, val |-> v]

\* a local variable of build_app() that has not been assigned yet
Unbound == [unbound |-> TRUE]

\* the empty dict {}
EmptyDict == [k \in {} |-> None]

\* d.get(k, default) and the dict with one key set or removed
Get(d, k, default) == IF k \in DOMAIN d THEN d[k] ELSE default
Put(d, k, v) == (k :> v) @@ d
Del(d, k) == [x \in DOMAIN d \ {k} |-> d[x]]

\* a literal of the manifest (an element of args, a value of kwargs)
Lit(n) == [lit |-> n]

\* all sequences over S of length at most n
SeqUpTo(S, n) == UNION {[1..k -> S] : k \in 0..n}

\* str.startswith(prefix), strings being sequences of characters
StartsWith(s, prefix) ==
    /\ Len(prefix) <= Len(s)
    /\ SubSeq(s, 1, Len(prefix)) = prefix

\* s contains sub as a substring
Contains(s, sub) ==
    \E k \in 0..(Len(s) - Len(sub)) : SubSeq(s, k + 1, k + Len(sub)) = sub

(* ------------------- names: sequences of characters ------------------- *)

pkg_a == <<"p", "k", "g", ".", "a">>
pkg_ab == <<"p", "k", "g", ".", "a", "b">>
pkg_b == <<"p", "k", "g", ".", "b">>
pkg_gone == <<"p", "k", "g", ".", "g", "o", "n", "e">>

pkg_a_x == pkg_a \o <<".", "x">>
pkg_a_y == pkg_a \o <<".", "y">>
pkg_ab_w == pkg_ab \o <<".", "w">>
pkg_b_z == pkg_b \o <<".", "z">>
spec_one == <<"s", ".", "1">>
spec_two == <<"s", ".", "2">>
spec_three == <<"s", ".", "3">>
spec_raw == <<"s", ".", "0">>

\* the built-in classes the builder imports (lines 4-9)
HumanReadableFormat == <<"H", "R", "F">>
LocalFS == <<"L", "o", "c", "a", "l", "F", "S">>
Engine == <<"E", "n", "g", "i", "n", "e">>
Interactive == <<"I", "n", "t", "e", "r">>
StdOut == <<"S", "t", "d", "O", "u", "t">>

\* classes a manifest can name
Stats == <<"f", ".", "S", "t", "a", "t", "s">>
Pub == <<"p", ".", "P", "u", "b">>
Down == <<"d", ".", "D", "o", "w", "n">>
Cons == <<"c", ".", "C", "o", "n", "s">>
WatchE == <<"w", ".", "E">>
WatchC == <<"w", ".", "C">>
WatchEC == <<"w", ".", "E", "C">>
WatchN == <<"w", ".", "N">>
\* a name that resolves to nothing
Missing == <<"n", "o", ".", "X">>

(* ----------- insights.dr: the registry the builder calls into ---------- *)

\* packages dr.load_components can import; any other package raises
Loadable == {pkg_a, pkg_ab, pkg_b}

\* the components importing a package registers, dependencies first
Registers(p) ==
    CASE p = pkg_a -> <<spec_one, spec_raw, spec_two, pkg_a_x, pkg_a_y>>
      [] p = pkg_ab -> <<spec_raw, spec_two, pkg_ab_w>>
      [] p = pkg_b -> <<spec_three, pkg_b_z>>
      [] OTHER -> <<>>

\* dr.DEPENDENCIES: what each registered component declares it depends on
DEPENDENCIES(c) ==
    CASE c = pkg_a_x -> {spec_one}
      [] c = pkg_a_y -> {spec_one, spec_two}
      [] c = pkg_ab_w -> {spec_two}
      [] c = pkg_b_z -> {spec_three}
      [] c = spec_two -> {spec_raw}
      [] OTHER -> {}

Range(s) == {s[k] : k \in 1..Len(s)}

\* DELEGATES after registering cs: a dict keeps a key's first insertion
RECURSIVE Register(_, _)
Register(delegates, cs) ==
    IF cs = <<>> THEN delegates
    ELSE Register(IF Head(cs) \in Range(delegates) THEN delegates
                  ELSE Append(delegates, Head(cs)),
                  Tail(cs))

\* the components reachable from c along DEPENDENCIES, c included
RECURSIVE Reach(_)
Reach(c) == {c} \cup UNION {Reach(d) : d \in DEPENDENCIES(c)}

\* dr.get_dependency_graph(c): every component reachable from c, mapped
\* to its own dependencies
get_dependency_graph(c) == [k \in Reach(c) |-> DEPENDENCIES(k)]

\* names dr.get_component can import, and the watcher base classes of each
Importable == {Stats, Pub, Down, Cons, WatchE, WatchC, WatchEC, WatchN}
EngineWatchers == {WatchE, WatchEC}
ConsumerWatchers == {WatchC, WatchEC}

\* a class object, and an instance made by calling it
Class(name) == [kind |-> "class", cls |-> name, args |-> <<>>, kwargs |-> {}]
Instance(name, args, kwargs) ==
    [kind |-> "instance", cls |-> name, args |-> args, kwargs |-> kwargs]

\* dr.get_component(name): the class, or None
get_component(name) == IF name \in Importable THEN Some(Class(name)) ELSE None

\* insights.apply_configs(config): the overrides it reads from its argument
ConfigsRead(config) == Get(config, "configs", <<>>)

(* ------------------------------ call log ------------------------------ *)

Call(op, slot, name, args, kwargs) ==
    [op |-> op, slot |-> slot, name |-> name, args |-> args, kwargs |-> kwargs]

\* a lookup in the registry, and a call of a class
Lookup(slot, name) == Call("get_component", slot, name, <<>>, {})
Construct(slot, name, args, kwargs) == Call("construct", slot, name, args, kwargs)

\* what a helper of the builder does: it returns val or raises exc, after
\* making calls
Return(val, calls) == [raised |-> FALSE, val |-> val, exc |-> None, calls |-> calls]
Raise(exc, calls) == [raised |-> TRUE, val |-> None, exc |-> Some(exc), calls |-> calls]

\* (mutant) the message does not interpolate the name
CouldntFind_unnamed(name) ==
    <<"C", "o", "u", "l", "d", "n", "'", "t", " ", "f", "i", "n", "d", " ">>
        \o <<"n", "a", "m", "e", ".">>

\* "Couldn't find {name}."
CouldntFind(name) ==
    <<"C", "o", "u", "l", "d", "n", "'", "t", " ", "f", "i", "n", "d", " ">>
        \o name \o <<".">>

NotFound(name) == [type |-> "Exception", msg |-> CouldntFind(name)]
ImportError(p) == [type |-> "ImportError", msg |-> p]

(* ----------------------- AppBuilder's helpers -------------------------- *)

\* (mutant) loading goes on after a package that fails
continue_on_error_set == TRUE

\* the keyword argument of dr.load_components in _load_packages
continue_on_error == FALSE

\* _get_format
_get_format(svc) ==
    IF "format" \notin DOMAIN svc
    THEN Return(Class(HumanReadableFormat), <<>>)
    ELSE LET name == svc["format"]
             fmt == get_component(name)
         IN IF fmt = None
            THEN Raise(NotFound(name), <<Lookup("format", name)>>)
            ELSE Return(fmt.val, <<Lookup("format", name)>>)

\* (mutant) the manifest's args come before the three pipeline objects
_get_consumer_args_first(svc, pub, down, eng) ==
    IF "consumer" \notin DOMAIN svc
    THEN Return(Instance(Interactive, <<pub, down, eng>>, {}),
                <<Construct("consumer", Interactive, <<pub, down, eng>>, {})>>)
    ELSE LET spec == svc["consumer"]
             Consumer == get_component(spec["name"])
             args == Get(spec, "args", <<>>)
             kwargs == Get(spec, "kwargs", {})
         IN IF Consumer = None
            THEN Raise(NotFound(spec["name"]), <<Lookup("consumer", spec["name"])>>)
            ELSE Return(Instance(Consumer.val.cls, args \o <<pub, down, eng>>, kwargs),
                        <<Lookup("consumer", spec["name"]),
                          Construct("consumer", Consumer.val.cls,
                                    args \o <<pub, down, eng>>, kwargs)>>)

\* (mutant) the consumer is given the downloader where the engine belongs
_get_consumer_no_engine(svc, pub, down, eng) ==
    IF "consumer" \notin DOMAIN svc
    THEN Return(Instance(Interactive, <<pub, down, down>>, {}),
                <<Construct("consumer", Interactive, <<pub, down, down>>, {})>>)
    ELSE LET spec == svc["consumer"]
             Consumer == get_component(spec["name"])
             args == Get(spec, "args", <<>>)
             kwargs == Get(spec, "kwargs", {})
         IN IF Consumer = None
            THEN Raise(NotFound(spec["name"]), <<Lookup("consumer", spec["name"])>>)
            ELSE Return(Instance(Consumer.val.cls, <<pub, down, down>> \o args, kwargs),
                        <<Lookup("consumer", spec["name"]),
                          Construct("consumer", Consumer.val.cls,
                                    <<pub, down, down>> \o args, kwargs)>>)

\* _get_consumer
_get_consumer(svc, pub, down, eng) ==
    IF "consumer" \notin DOMAIN svc
    THEN Return(Instance(Interactive, <<pub, down, eng>>, {}),
                <<Construct("consumer", Interactive, <<pub, down, eng>>, {})>>)
    ELSE LET spec == svc["consumer"]
             Consumer == get_component(spec["name"])
             args == Get(spec, "args", <<>>)
             kwargs == Get(spec, "kwargs", {})
         IN IF Consumer = None
            THEN Raise(NotFound(spec["name"]), <<Lookup("consumer", spec["name"])>>)
            ELSE Return(Instance(Consumer.val.cls, <<pub, down, eng>> \o args, kwargs),
                        <<Lookup("consumer", spec["name"]),
                          Construct("consumer", Consumer.val.cls,
                                    <<pub, down, eng>> \o args, kwargs)>>)

\* _get_publisher
_get_publisher(svc) ==
    IF "publisher" \notin DOMAIN svc
    THEN Return(Instance(StdOut, <<>>, {}), <<Construct("publisher", StdOut, <<>>, {})>>)
    ELSE LET spec == svc["publisher"]
             Publisher == get_component(spec["name"])
             args == Get(spec, "args", <<>>)
             kwargs == Get(spec, "kwargs", {})
         IN IF Publisher = None
            THEN Raise(NotFound(spec["name"]), <<Lookup("publisher", spec["name"])>>)
            ELSE Return(Instance(Publisher.val.cls, args, kwargs),
                        <<Lookup("publisher", spec["name"]),
                          Construct("publisher", Publisher.val.cls, args, kwargs)>>)

\* _load, called for the slot named
_load(spec, slot) ==
    LET comp == get_component(spec["name"])
        args == Get(spec, "args", <<>>)
        kwargs == Get(spec, "kwargs", {})
    IN IF comp = None
       THEN Raise(NotFound(spec["name"]), <<Lookup(slot, spec["name"])>>)
       ELSE Return(Instance(comp.val.cls, args, kwargs),
                   <<Lookup(slot, spec["name"]),
                     Construct(slot, comp.val.cls, args, kwargs)>>)

\* (mutant) the default downloader is instantiated, as the default publisher is
_get_downloader_instantiated(svc) ==
    IF "downloader" \notin DOMAIN svc
    THEN Return(Instance(LocalFS, <<>>, {}), <<Construct("downloader", LocalFS, <<>>, {})>>)
    ELSE _load(svc["downloader"], "downloader")

\* _get_downloader
_get_downloader(svc) ==
    IF "downloader" \notin DOMAIN svc
    THEN Return(Class(LocalFS), <<>>)
    ELSE _load(svc["downloader"], "downloader")

\* (mutant) a target selects only the component of exactly that name
startswith_exact(name, tc) == \E k \in 1..Len(tc) : name = tc[k]

\* dr.get_name(c).startswith(tc), tc a tuple of prefixes
startswith(name, tc) == \E k \in 1..Len(tc) : StartsWith(name, tc[k])

\* graph.update(other)
update(graph, other) == other @@ graph

\* the loop of _get_target_components over dr.DELEGATES
RECURSIVE TargetGraph(_, _, _)
TargetGraph(cs, tc, graph) ==
    IF cs = <<>> THEN graph
    ELSE TargetGraph(Tail(cs), tc,
                     IF startswith(Head(cs), tc)
                     THEN update(graph, get_dependency_graph(Head(cs)))
                     ELSE graph)

\* (mutant) the graph is returned as it is, empty or not
OrNone_dropped(graph) == Some(graph)

\* graph or None
OrNone(graph) == IF DOMAIN graph = {} THEN None ELSE Some(graph)

\* _get_target_components, over the registry's DELEGATES
_get_target_components(svc, registered) ==
    LET tc == Get(svc, "target_components", <<>>)
    IN IF Len(tc) = 0
       THEN Return(None, <<>>)
       ELSE Return(OrNone(TargetGraph(registered, tc, EmptyDict)),
                   <<Call("DELEGATES", "target_components", <<>>, <<>>, {})>>)

\* (mutant) the second isinstance test is an elif of the first
WatchCalls_elif(w, eng, cons) ==
    IF w.cls \in EngineWatchers THEN <<eng>>
    ELSE IF w.cls \in ConsumerWatchers THEN <<cons>> ELSE <<>>

\* the objects watcher w is called with in the loop of build_app: the two
\* isinstance tests are independent
WatchCalls(w, eng, cons) ==
    (IF w.cls \in EngineWatchers THEN <<eng>> ELSE <<>>)
        \o (IF w.cls \in ConsumerWatchers THEN <<cons>> ELSE <<>>)

\* (mutant) the target closure is computed before the configuration is applied
build_app_targets_first ==
    <<"load_plugins", "get_target_components", "apply_default_enabled",
      "apply_configs", "get_publisher", "get_downloader", "Engine",
      "get_consumer", "get_watchers", "watch", "return">>

\* the statements of build_app, in program order
build_app ==
    <<"load_plugins", "apply_default_enabled", "apply_configs",
      "get_target_components", "get_publisher", "get_downloader", "Engine",
      "get_consumer", "get_watchers", "watch", "return">>

\* the statement that follows stmt
After(stmt) ==
    LET k == CHOOSE j \in 1..Len(build_app) : build_app[j] = stmt
    IN IF k = Len(build_app) THEN "returned" ELSE build_app[k + 1]

(* ----------------------------- manifests ------------------------------ *)

Override(name, enabled) == [name |-> name, enabled |-> enabled]

\* what the enumerated manifests are made of
Packages == {pkg_a, pkg_ab, pkg_b, pkg_gone}
Targets == {pkg_a, pkg_b, pkg_b_z \o <<"z">>}
ArgLists == SeqUpTo({Lit(1), Lit(2)}, MaxArgs)
Kwargs == {<<"k", Lit(1)>>}
Specs(name) ==
    {[name |-> name], [name |-> name, kwargs |-> Kwargs]}
        \cup {[name |-> name, args |-> a] : a \in ArgLists}
        \cup {[name |-> name, args |-> a, kwargs |-> Kwargs] : a \in ArgLists}
WatcherSpecs ==
    {[name |-> n] : n \in {WatchE, WatchC, WatchEC, WatchN, Missing}}
        \cup {[name |-> WatchE, args |-> <<Lit(1)>>, kwargs |-> Kwargs]}

\* a key that is absent (None) or present with one of the values
Maybe(S) == {None} \cup {Some(v) : v \in S}
Vary(d, k, opt) == IF opt = None THEN Del(d, k) ELSE Put(d, k, opt.val)
InPlugins(m, k, opt) == Put(m, "plugins", Vary(Get(m, "plugins", EmptyDict), k, opt))
InService(m, k, opt) == Put(m, "service", Vary(Get(m, "service", EmptyDict), k, opt))

\* a manifest with every section present, of the shape of default_manifest,
\* and the manifest {} with every section absent
FullManifest ==
    [plugins |-> [default_component_enabled |-> TRUE,
                  packages |-> <<pkg_a, pkg_ab, pkg_b>>],
     configs |-> <<Override(pkg_a_x, TRUE)>>,
     service |-> [consumer |-> [name |-> Cons],
                  publisher |-> [name |-> Pub],
                  downloader |-> [name |-> Down],
                  format |-> Stats,
                  target_components |-> <<pkg_a>>,
                  watchers |-> <<[name |-> WatchEC]>>]]
EmptyManifest == EmptyDict

\* the two manifests above with one section varied over all its values
VaryOne(b) ==
    {InPlugins(b, "packages", o) : o \in Maybe(SeqUpTo(Packages, MaxPackages))}
    \cup {InPlugins(b, "configs", o) : o \in Maybe({<<Override(pkg_b_z, FALSE)>>})}
    \cup {Vary(b, "configs", o) :
            o \in Maybe({<<>>, <<Override(pkg_a_y, FALSE)>>,
                         <<Override(pkg_a_y, FALSE), Override(pkg_b_z, TRUE)>>})}
    \cup {InService(b, "format", o) : o \in Maybe({Stats, Missing})}
    \cup {InService(b, "publisher", o) : o \in Maybe(Specs(Pub) \cup Specs(Missing))}
    \cup {InService(b, "downloader", o) : o \in Maybe(Specs(Down) \cup Specs(Missing))}
    \cup {InService(b, "consumer", o) : o \in Maybe(Specs(Cons) \cup Specs(Missing))}
    \cup {InService(b, "target_components", o) :
            o \in Maybe(SeqUpTo(Targets, MaxTargets))}
    \cup {InService(b, "watchers", o) : o \in Maybe(SeqUpTo(WatcherSpecs, MaxWatchers))}

\* every package list with every target list
VaryRegistry ==
    {InService(InPlugins(FullManifest, "packages", Some(p)),
               "target_components", Some(t)) :
        p \in SeqUpTo(Packages, MaxPackages), t \in SeqUpTo(Targets, MaxTargets)}

Manifests == VaryOne(FullManifest) \cup VaryOne(EmptyManifest) \cup VaryRegistry

(* ------------------------------- state -------------------------------- *)

VARIABLES
    manifest, plugins, service, configs,    \* the builder's attributes
    delegates, overrides,                   \* the registry: dr.DELEGATES, and
                                            \* the overrides apply_configs applied
    pc, i,                                  \* the statement of build_app to run
                                            \* next and the index of its loop
    target_components, publisher, downloader, engine, consumer,
    watchers,                               \* the list _get_watchers builds
    watched,                                \* per watcher, what watch() was called with
    log,                                    \* the calls made so far
    exc,                                    \* the exception build_app raised
    result                                  \* what build_app returned

self == <<manifest, plugins, service, configs>>
locals == <<target_components, publisher, downloader, engine, consumer>>
vars == <<manifest, plugins, service, configs, delegates, overrides, pc, i,
          target_components, publisher, downloader, engine, consumer,
          watchers, watched, log, exc, result>>

\* __init__, then the entry of build_app
Init ==
    /\ manifest \in Manifests
    /\ plugins = Get(manifest, "plugins", EmptyDict)
    /\ service = Get(manifest, "service", EmptyDict)
    /\ configs = Get(manifest, "configs", EmptyDict)
    /\ delegates = <<>>
    /\ overrides = <<>>
    /\ pc = build_app[1]
    /\ i = 1
    /\ target_components = Unbound
    /\ publisher = Unbound
    /\ downloader = Unbound
    /\ engine = Unbound
    /\ consumer = Unbound
    /\ watchers = <<>>
    /\ watched = <<>>
    /\ log = <<>>
    /\ exc = None
    /\ result = None

\* a helper's calls are made; build_app goes on, or ends with its exception
Finish(stmt, out) ==
    /\ log' = log \o out.calls
    /\ pc' = IF out.raised THEN "raised" ELSE After(stmt)
    /\ exc' = out.exc

(* --------------------- build_app, statement by statement -------------- *)

\* the argument build_app passes to apply_configs
apply_configs_argument == plugins

\* _load_plugins: one turn of the loop of _load_packages, or its end
LoadPlugins ==
    /\ pc = "load_plugins"
    /\ LET pkgs == Get(plugins, "packages", <<>>)
       IN IF i > Len(pkgs)
          THEN /\ pc' = After("load_plugins")
               /\ i' = 1
               /\ UNCHANGED <<delegates, log, exc>>
          ELSE /\ log' = Append(log, Call("load_components", "plugins", pkgs[i], <<>>, {}))
               /\ IF pkgs[i] \in Loadable
                  THEN /\ delegates' = Register(delegates, Registers(pkgs[i]))
                       /\ i' = i + 1
                       /\ UNCHANGED <<pc, exc>>
                  ELSE IF continue_on_error
                       THEN /\ i' = i + 1
                            /\ UNCHANGED <<delegates, pc, exc>>
                       ELSE /\ pc' = "raised"
                            /\ exc' = Some(ImportError(pkgs[i]))
                            /\ UNCHANGED <<delegates, i>>
    /\ UNCHANGED <<self, overrides, locals, watchers, watched, result>>

\* apply_default_enabled(self.plugins)
ApplyDefaultEnabled ==
    /\ pc = "apply_default_enabled"
    /\ log' = Append(log, Call("apply_default_enabled", "plugins", <<>>, <<plugins>>, {}))
    /\ pc' = After("apply_default_enabled")
    /\ UNCHANGED <<self, delegates, overrides, i, locals, watchers, watched, exc, result>>

\* apply_configs(self.plugins)
ApplyConfigs ==
    /\ pc = "apply_configs"
    /\ log' = Append(log, Call("apply_configs", "plugins", <<>>,
                               <<apply_configs_argument>>, {}))
    /\ overrides' = ConfigsRead(apply_configs_argument)
    /\ pc' = After("apply_configs")
    /\ UNCHANGED <<self, delegates, i, locals, watchers, watched, exc, result>>

\* target_components = self._get_target_components()
GetTargetComponents ==
    /\ pc = "get_target_components"
    /\ LET out == _get_target_components(service, delegates)
       IN /\ Finish("get_target_components", out)
          /\ target_components' = out.val
    /\ UNCHANGED <<self, delegates, overrides, i, publisher, downloader, engine,
                   consumer, watchers, watched, result>>

\* publisher = self._get_publisher()
GetPublisher ==
    /\ pc = "get_publisher"
    /\ LET out == _get_publisher(service)
       IN /\ Finish("get_publisher", out)
          /\ publisher' = IF out.raised THEN publisher ELSE out.val
    /\ UNCHANGED <<self, delegates, overrides, i, target_components, downloader,
                   engine, consumer, watchers, watched, result>>

\* downloader = self._get_downloader()
GetDownloader ==
    /\ pc = "get_downloader"
    /\ LET out == _get_downloader(service)
       IN /\ Finish("get_downloader", out)
          /\ downloader' = IF out.raised THEN downloader ELSE out.val
    /\ UNCHANGED <<self, delegates, overrides, i, target_components, publisher,
                   engine, consumer, watchers, watched, result>>

\* engine = Engine(target_components, self._get_format())
NewEngine ==
    /\ pc = "Engine"
    /\ LET fmt == _get_format(service)
           args == <<target_components, fmt.val>>
       IN IF fmt.raised
          THEN /\ Finish("Engine", fmt)
               /\ UNCHANGED engine
          ELSE /\ Finish("Engine",
                         Return(Instance(Engine, args, {}),
                                fmt.calls \o <<Construct("engine", Engine, args, {})>>))
               /\ engine' = Instance(Engine, args, {})
    /\ UNCHANGED <<self, delegates, overrides, i, target_components, publisher,
                   downloader, consumer, watchers, watched, result>>

\* consumer = self._get_consumer(publisher, downloader, engine)
GetConsumer ==
    /\ pc = "get_consumer"
    /\ LET out == _get_consumer(service, publisher, downloader, engine)
       IN /\ Finish("get_consumer", out)
          /\ consumer' = IF out.raised THEN consumer ELSE out.val
    /\ UNCHANGED <<self, delegates, overrides, i, target_components, publisher,
                   downloader, engine, watchers, watched, result>>

\* _get_watchers: one turn of its list comprehension, or its end
GetWatchers ==
    /\ pc = "get_watchers"
    /\ LET ws == Get(service, "watchers", <<>>)
       IN IF "watchers" \notin DOMAIN service \/ i > Len(ws)
          THEN /\ pc' = After("get_watchers")
               /\ i' = 1
               /\ UNCHANGED <<watchers, watched, log, exc>>
          ELSE LET out == _load(ws[i], "watchers")
               IN /\ log' = log \o out.calls
                  /\ exc' = out.exc
                  /\ pc' = IF out.raised THEN "raised" ELSE pc
                  /\ i' = IF out.raised THEN i ELSE i + 1
                  /\ watchers' = IF out.raised THEN watchers
                                 ELSE Append(watchers, out.val)
                  /\ watched' = IF out.raised THEN watched ELSE Append(watched, <<>>)
    /\ UNCHANGED <<self, delegates, overrides, locals, result>>

\* the loop over the watchers: one turn, or its end
Watch ==
    /\ pc = "watch"
    /\ IF i > Len(watchers)
       THEN /\ pc' = After("watch")
            /\ i' = 1
            /\ UNCHANGED <<watched, log>>
       ELSE LET w == watchers[i]
                objs == WatchCalls(w, engine, consumer)
            IN /\ watched' = [watched EXCEPT ![i] = watched[i] \o objs]
               /\ log' = log \o [k \in 1..Len(objs) |->
                                   Call("watch", "watchers", w.cls, <<w, objs[k]>>, {})]
               /\ i' = i + 1
               /\ UNCHANGED pc
    /\ UNCHANGED <<self, delegates, overrides, locals, watchers, exc, result>>

\* return consumer
ReturnConsumer ==
    /\ pc = "return"
    /\ result' = Some(consumer)
    /\ pc' = After("return")
    /\ UNCHANGED <<self, delegates, overrides, i, locals, watchers, watched, log, exc>>

Next ==
    \/ LoadPlugins
    \/ ApplyDefaultEnabled
    \/ ApplyConfigs
    \/ GetTargetComponents
    \/ GetPublisher
    \/ GetDownloader
    \/ NewEngine
    \/ GetConsumer
    \/ GetWatchers
    \/ Watch
    \/ ReturnConsumer

Spec == Init /\ [][Next]_vars

\* build_app has ended: it returned or it raised
Ended == pc \in {"returned", "raised"}

(* ------------------------------ claims -------------------------------- *)

Calls(op) == {k \in 1..Len(log) : log[k].op = op}
CallsFor(op, slot) == {k \in 1..Len(log) : log[k].op = op /\ log[k].slot = slot}
PackagesListed == Get(plugins, "packages", <<>>)

\* the load_components calls that failed
FailedLoads == {k \in Calls("load_components") : log[k].name \notin Loadable}

\* C1: when loading a package of plugins.packages fails, the build ends
\* there: the failed load is the last call ever made, so no later package
\* is loaded, apply_default_enabled and apply_configs are not called, the
\* registry is neither enumerated nor looked up, no constructor is called,
\* no pipeline object exists and no consumer is returned.
C1_LoadFailureAborts ==
    \A k \in FailedLoads :
        /\ k = Len(log)
        /\ \A j \in 1..Len(log) : log[j].op = "load_components"
        /\ pc = "raised"
        /\ exc = Some(ImportError(log[k].name))
        /\ locals = <<Unbound, Unbound, Unbound, Unbound, Unbound>>
        /\ watchers = <<>>
        /\ overrides = <<>>
        /\ result = None

\* a load failed while a later package and every service slot were configured
C1_Witness ==
    /\ pc = "raised"
    /\ \E k \in FailedLoads : k < Len(PackagesListed)
    /\ {"consumer", "publisher", "downloader", "format", "watchers"} \subseteq DOMAIN service

\* the calls the steps of build_app make
IsResolve(c) == c.op \in {"get_component", "construct"}
IsConstructOf(c, slot) == c.op = "construct" /\ c.slot = slot

\* call a is one the claim orders before call b
MustPrecede(a, b) ==
    \/ a.op = "load_components" /\ b.op = "apply_default_enabled"
    \/ a.op = "apply_default_enabled" /\ b.op = "apply_configs"
    \/ a.op = "apply_configs" /\ (b.op = "DELEGATES" \/ IsResolve(b))
    \/ /\ a.op = "DELEGATES" \/ (IsResolve(a) /\ a.slot \in {"publisher", "downloader", "format"})
       /\ IsConstructOf(b, "engine")
    \/ IsConstructOf(a, "engine") /\ IsConstructOf(b, "consumer")
    \/ IsConstructOf(a, "consumer") /\ b.slot = "watchers"

\* C2: the steps of build_app happen in order: the packages are loaded in
\* manifest order and all of them before apply_default_enabled, that before
\* apply_configs, that before the registry is enumerated for the closure or
\* any component is resolved by name; the Engine is constructed once the
\* closure, the publisher, the downloader and the format are resolved, the
\* Consumer after the Engine, the watchers are made and attached after the
\* Consumer.
C2_Order ==
    /\ \A j, k \in 1..Len(log) : MustPrecede(log[j], log[k]) => j < k
    /\ LET loads == SelectSeq(log, LAMBDA c : c.op = "load_components")
       IN /\ Len(loads) <= Len(PackagesListed)
          /\ \A k \in 1..Len(loads) : loads[k].name = PackagesListed[k]
          /\ Calls("apply_default_enabled") # {} => Len(loads) = Len(PackagesListed)
    /\ Calls("apply_configs") # {} => Calls("apply_default_enabled") # {}
    /\ (Calls("DELEGATES") # {} \/ Calls("get_component") # {} \/ Calls("construct") # {}
        \/ target_components # Unbound)
          => Calls("apply_configs") # {}
    /\ CallsFor("construct", "engine") # {}
          => /\ target_components # Unbound
             /\ publisher # Unbound
             /\ downloader # Unbound
             /\ engine # Unbound
             /\ "format" \in DOMAIN service
                   => \E j \in CallsFor("get_component", "format") :
                         \A k \in CallsFor("construct", "engine") : j < k
    /\ CallsFor("construct", "consumer") # {} => CallsFor("construct", "engine") # {}
    /\ (CallsFor("get_component", "watchers") # {} \/ Calls("watch") # {} \/ watchers # <<>>)
          => CallsFor("construct", "consumer") # {}

\* a build that returned having made every kind of call
C2_Witness ==
    /\ pc = "returned"
    /\ Len(PackagesListed) >= 2
    /\ Calls("DELEGATES") # {}
    /\ \A slot \in {"publisher", "downloader", "format", "consumer", "watchers"} :
          CallsFor("get_component", slot) # {}
    /\ Calls("watch") # {}

\* C3: apply_configs receives the overrides of the manifest's top-level
\* configs section: once it has been called, every override listed under
\* configs has been applied to the registry.
C3_ConfigsApplied ==
    Calls("apply_configs") # {}
        => LET listed == Get(manifest, "configs", <<>>)
           IN \A k \in 1..Len(listed) :
                 \E j \in 1..Len(overrides) : overrides[j] = listed[k]

\* the target prefixes configured, and the registered components whose
\* name has one of them as a raw string prefix
TargetsListed == Get(service, "target_components", <<>>)
Matching ==
    {c \in Range(delegates) : \E t \in Range(TargetsListed) : StartsWith(c, t)}

\* a dependency graph as its set of key-to-dependency-set entries
Entries(graph) == {<<k, graph[k]>> : k \in DOMAIN graph}
EntriesOfMatching == UNION {Entries(get_dependency_graph(c)) : c \in Matching}

\* C4: with target_components non-empty and at least one registered
\* component matching, the closure the Engine is constructed with is the
\* union of the key-to-dependency-set entries of the dependency graphs of
\* the registered components whose name starts with a target (a raw string
\* prefix), and holds nothing else.
C4_ClosureIsMergeOfMatching ==
    (engine # Unbound /\ Len(TargetsListed) > 0 /\ Matching # {})
        => /\ engine.args[1] # None
           /\ Entries(engine.args[1].val) = EntriesOfMatching
           /\ engine.args[1] = target_components

\* the spec's example: pkg.a.x, pkg.a.y, pkg.ab.w and pkg.b.z registered,
\* target pkg.a; pkg.ab.w is selected, pkg.b.z and what only it reaches is not
C4_Witness ==
    /\ engine # Unbound
    /\ TargetsListed = <<pkg_a>>
    /\ {pkg_a_x, pkg_a_y, pkg_ab_w, pkg_b_z} \subseteq Range(delegates)
    /\ Matching = {pkg_a_x, pkg_a_y, pkg_ab_w}
    /\ DOMAIN engine.args[1].val =
          {pkg_a_x, pkg_a_y, pkg_ab_w, spec_one, spec_two, spec_raw}

\* C5: the Engine is never constructed with an empty closure: with
\* target_components absent or empty, or matching no registered component,
\* it is constructed with None; and with target_components absent or empty
\* the registry is not enumerated.
C5_NoEmptyClosure ==
    /\ engine # Unbound
          => /\ engine.args[1] = None \/ DOMAIN engine.args[1].val # {}
             /\ (Len(TargetsListed) = 0 \/ Matching = {}) => engine.args[1] = None
    /\ target_components # Unbound
          => /\ target_components = None \/ DOMAIN target_components.val # {}
             /\ (Len(TargetsListed) = 0 \/ Matching = {}) => target_components = None
    /\ Len(TargetsListed) = 0 => Calls("DELEGATES") = {}

\* targets are configured and components are registered, but none matches
C5_Witness ==
    /\ engine # Unbound
    /\ Len(TargetsListed) > 0
    /\ delegates # <<>>
    /\ Matching = {}
    /\ Calls("DELEGATES") # {}
    /\ engine.args[1] = None

\* the lookups get_component answered with None
FailedLookups == {k \in Calls("get_component") : log[k].name \notin Importable}

\* the name the manifest gives for a slot (for watchers: one of the names)
NamedIn(slot, name) ==
    /\ slot \in DOMAIN service
    /\ CASE slot = "format" -> service[slot] = name
         [] slot = "watchers" ->
              \E k \in 1..Len(service[slot]) : service[slot][k]["name"] = name
         [] OTHER -> service[slot]["name"] = name

\* C6: when the name the manifest gives for format, publisher, downloader,
\* consumer or a watcher does not resolve, build_app raises an exception
\* whose message contains that name; the component is not constructed, no
\* further call is made and no consumer is returned.
C6_NotFoundNamesIdentifier ==
    \A k \in FailedLookups :
        /\ NamedIn(log[k].slot, log[k].name)
        /\ k = Len(log)
        /\ pc = "raised"
        /\ exc # None
        /\ exc.val.type = "Exception"
        /\ Contains(exc.val.msg, log[k].name)
        /\ \A j \in Calls("construct") :
              ~(log[j].slot = log[k].slot /\ log[j].name = log[k].name)
        /\ result = None

\* every one of the five slots is seen failing
C6_WitnessSlot(slot) ==
    /\ pc = "raised"
    /\ \E k \in FailedLookups : log[k].slot = slot /\ log[k].name = Missing

C6_Witness ==
    /\ C6_WitnessSlot("format")
    /\ engine = Unbound
    /\ publisher # Unbound

\* what a watcher is to be called with, by its capabilities alone
Attachments(w) ==
    (IF w.cls \in EngineWatchers THEN <<engine>> ELSE <<>>)
        \o (IF w.cls \in ConsumerWatchers THEN <<consumer>> ELSE <<>>)

\* C7 as stated: once build_app has ended, every constructed watcher is
\* attached to the engine iff it has the engine capability and to the
\* consumer iff it has the consumer capability.
C7_EveryConstructedWatcherAttached ==
    Ended => \A k \in 1..Len(watchers) : watched[k] = Attachments(watchers[k])

\* C7, amended: a watcher is never called with an object it has no
\* capability for; in a build that returns, every watcher has been called
\* with the engine iff it is an EngineWatcher and with the consumer iff it
\* is a ConsumerWatcher, the engine first; in a build that raises while the
\* watchers are constructed, the watchers already constructed are attached
\* to nothing.
C7_AttachmentByCapability ==
    /\ Len(watched) = Len(watchers)
    /\ \A k \in 1..Len(watchers) :
          /\ engine \in Range(watched[k]) => watchers[k].cls \in EngineWatchers
          /\ consumer \in Range(watched[k]) => watchers[k].cls \in ConsumerWatchers
          /\ pc \in {"return", "returned"} => watched[k] = Attachments(watchers[k])
          /\ pc = "raised" => watched[k] = <<>>
    /\ Cardinality(Calls("watch")) =
          Cardinality({<<k, j>> \in (1..Len(watched)) \X (1..2) : j <= Len(watched[k])})

\* a build returned with a watcher of both capabilities and one of neither
C7_Witness ==
    /\ pc = "returned"
    /\ \E j, k \in 1..Len(watchers) :
          /\ watchers[j].cls = WatchEC
          /\ watched[j] = <<engine, consumer>>
          /\ watchers[k].cls = WatchN
          /\ watched[k] = <<>>

\* the value build_app resolved for the format slot: the Engine's second argument
FormatUsed == engine.args[2]

\* C8: for each of consumer, publisher, downloader and format the manifest
\* omits, no get_component lookup is made for the slot and the built-in
\* default is used: Interactive(publisher, downloader, engine), StdOut(),
\* the class LocalFS itself (never called), the class HumanReadableFormat;
\* a slot the manifest gives is resolved through get_component.
C8_DefaultsWithoutLookup ==
    /\ \A slot \in {"consumer", "publisher", "downloader", "format"} :
          slot \notin DOMAIN service => CallsFor("get_component", slot) = {}
    /\ ("publisher" \notin DOMAIN service /\ publisher # Unbound)
          => /\ publisher = Instance(StdOut, <<>>, {})
             /\ \E k \in CallsFor("construct", "publisher") :
                   log[k] = Construct("publisher", StdOut, <<>>, {})
    /\ ("downloader" \notin DOMAIN service /\ downloader # Unbound)
          => /\ downloader = Class(LocalFS)
             /\ CallsFor("construct", "downloader") = {}
    /\ ("format" \notin DOMAIN service /\ engine # Unbound)
          => FormatUsed = Class(HumanReadableFormat)
    /\ ("consumer" \notin DOMAIN service /\ consumer # Unbound)
          => /\ consumer = Instance(Interactive, <<publisher, downloader, engine>>, {})
             /\ \E k \in CallsFor("construct", "consumer") :
                   log[k] = Construct("consumer", Interactive,
                                      <<publisher, downloader, engine>>, {})
    /\ ("publisher" \in DOMAIN service /\ publisher # Unbound)
          => /\ CallsFor("get_component", "publisher") # {}
             /\ publisher.cls = service["publisher"]["name"]
    /\ ("downloader" \in DOMAIN service /\ downloader # Unbound)
          => /\ CallsFor("get_component", "downloader") # {}
             /\ downloader.cls = service["downloader"]["name"]
    /\ ("format" \in DOMAIN service /\ engine # Unbound)
          => /\ CallsFor("get_component", "format") # {}
             /\ FormatUsed.cls = service["format"]
    /\ ("consumer" \in DOMAIN service /\ consumer # Unbound)
          => /\ CallsFor("get_component", "consumer") # {}
             /\ consumer.cls = service["consumer"]["name"]

\* a build of a manifest that omits all four slots returned
C8_Witness ==
    /\ pc = "returned"
    /\ DOMAIN service \cap {"consumer", "publisher", "downloader", "format"} = {}
    /\ Calls("get_component") = {}
    /\ result = Some(Instance(Interactive,
                              <<Instance(StdOut, <<>>, {}), Class(LocalFS), engine>>, {}))

\* the instance the spec of a slot must give, args before kwargs, after
\* the arguments the builder prepends
Built(spec, prepended) ==
    Instance(spec["name"], prepended \o Get(spec, "args", <<>>), Get(spec, "kwargs", {}))

\* the instance was made by a constructor call for the slot
ConstructedFor(slot, obj) ==
    \E k \in CallsFor("construct", slot) :
        log[k] = Construct(slot, obj.cls, obj.args, obj.kwargs)

\* C9: a component a ComponentSpec names is constructed with the spec's
\* args, in manifest order, and its kwargs, both empty when omitted; the
\* consumer with (publisher, downloader, engine) before the spec's args;
\* publisher, downloader and watchers with nothing prepended.
C9_SpecArguments ==
    /\ ("publisher" \in DOMAIN service /\ publisher # Unbound)
          => /\ publisher = Built(service["publisher"], <<>>)
             /\ ConstructedFor("publisher", publisher)
    /\ ("downloader" \in DOMAIN service /\ downloader # Unbound)
          => /\ downloader = Built(service["downloader"], <<>>)
             /\ ConstructedFor("downloader", downloader)
    /\ ("consumer" \in DOMAIN service /\ consumer # Unbound)
          => /\ consumer = Built(service["consumer"], <<publisher, downloader, engine>>)
             /\ ConstructedFor("consumer", consumer)
             /\ SubSeq(consumer.args, 1, 3) = <<publisher, downloader, engine>>
             /\ publisher # Unbound /\ downloader # Unbound /\ engine # Unbound
    /\ \A k \in 1..Len(watchers) :
          /\ watchers[k] = Built(service["watchers"][k], <<>>)
          /\ ConstructedFor("watchers", watchers[k])

\* a consumer spec with two different args and a kwarg was constructed
C9_Witness ==
    /\ consumer # Unbound
    /\ "consumer" \in DOMAIN service
    /\ Get(service["consumer"], "args", <<>>) = <<Lit(2), Lit(1)>>
    /\ Get(service["consumer"], "kwargs", {}) = Kwargs
    /\ consumer.args = <<publisher, downloader, engine, Lit(2), Lit(1)>>
    /\ consumer.kwargs = Kwargs

====
